---------------------------- MODULE Spec2Model ----------------------------
(***************************************************************************)
(* Chunked-transcription assembly of Whisper-CPP-Act: the time codec, the  *)
(* subtitle shift/truncation, the segmenter and the two per-segment        *)
(* drivers (whisper.cpp command line, transformers pipeline).              *)
(*                                                                         *)
(* Time is counted in whole milliseconds.  A timestamp text HH:MM:SS,mmm   *)
(* is the tuple <<HH, MM, SS, mmm>> of its four zero-padded fields.        *)
(***************************************************************************)
EXTENDS Integers, Sequences, FiniteSets, TLC

VARIABLES
    driver,             \* "cpp" (transcriptor_cpp.py) or "py" (transcriptor_python.py)
    pc,                 \* position of main: "split", "loop", "done", "exit", or "probe"
    asset_ms,           \* duration of the audio asset
    chunk_files,        \* the segment list returned by split_audio
    idx,                \* number of segments the per-segment loop has consumed
    final_txt,          \* transcripts/transcript.txt, a sequence of writes
    final_srt,          \* transcripts/transcript.srt, a sequence of lines
    srt_block_counter,  \* the shared subtitle index counter
    exit_code,          \* -1 while running, else the status of the process
    results,            \* per consumed segment: what the engine did and what was appended
    probe,              \* input and result of a pure function under test
    output_dir,         \* the files of the segment directory
    cmd,                \* the argument list of the latest whisper-cli invocation
    run                 \* number of the current run in this working directory

vars == <<driver, pc, asset_ms, chunk_files, idx, final_txt, final_srt,
          srt_block_counter, exit_code, results, probe, output_dir, cmd, run>>

(***************************************************************************)
(* Bounds of the model.                                                    *)
(***************************************************************************)
MaxSegs == 3
MaxCodecMs == 1100
MaxAssetMs == 12
MaxChunkMs == 5
MaxRuns == 2

(***************************************************************************)
(* Program constants.                                                      *)
(***************************************************************************)
CppChunkLengthMs == 10800000
PyChunkLengthMs == 300000
LastChunkCapMs == 99999000
\* 99:59:59,999, the largest value whose hours take two digits
CodecRangeMaxMs == 100 * 3600000 - 1

None == [none |-> TRUE]

Min(a, b) == IF a < b THEN a ELSE b

RECURSIVE Pow2(_)
Pow2(k) == IF k = 0 THEN 1 ELSE 2 * Pow2(k - 1)

RECURSIVE Pow2Mod1000(_)
Pow2Mod1000(k) == IF k = 0 THEN 1 ELSE (2 * Pow2Mod1000(k - 1)) % 1000

RECURSIVE Log2Floor(_)
Log2Floor(n) == IF n <= 1 THEN 0 ELSE 1 + Log2Floor(n \div 2)

(***************************************************************************)
(* Time codec.                                                             *)
(***************************************************************************)

\* to_timedelta: the four fields of the text, summed as timedelta does.
to_timedelta(time_str) ==
    time_str[1] * 3600000 + time_str[2] * 60000 + time_str[3] * 1000 + time_str[4]

\* int(td.total_seconds() * 1000) for a timedelta of n whole milliseconds,
\* in IEEE-754 binary64.  total_seconds() is x = fl(n / 1000) = m / 2^k with
\* m = round(n * 2^k / 1000), 2^52 <= m < 2^53; then x * 1000 = n - r / 2^k
\* exactly, r = n * 2^k - 1000 * m.  With p = floor(log2 n): k = 61 - p when
\* n >= 1000 * 2^(p-9) and k = 62 - p otherwise.  The product rounds to the
\* double below n, and int() then yields n - 1, exactly when r exceeds half
\* the spacing of doubles below n, that is when k = 61 - p and
\* 256 < (n * 2^k mod 1000) < 500 (the residue is a multiple of 8, so there
\* are no ties); in every other case the result is n.
TruncLoses(n) ==
    IF n = 0 THEN FALSE
    ELSE LET p == Log2Floor(n)
             upper == IF p >= 6 THEN n >= 125 * Pow2(p - 6)
                                ELSE n * 64 >= 125 * Pow2(p)
             rem == ((n % 1000) * Pow2Mod1000(61 - p)) % 1000
         IN  upper /\ rem > 256 /\ rem < 500

int_total_ms(n) == IF TruncLoses(n) THEN n - 1 ELSE n

\* The four fields written by the f-string, from total_ms = int_total_ms(td).
Fields(t) ==
    << t \div 3600000, (t % 3600000) \div 60000, (t % 60000) \div 1000, t % 1000 >>

\* shift_srt_time.to_str (transcriptor_cpp.py)
to_str(td) == Fields(int_total_ms(td))

\* format_srt_time (transcriptor_python.py); timedelta(seconds=...) rounds the
\* float to the microsecond, which for a value of whole milliseconds is exact.
format_srt_time(seconds_ms) == Fields(int_total_ms(seconds_ms))

\* A text matched by \d{2}:\d{2}:\d{2},\d{3}
WellFormed(s) ==
    /\ s[1] \in 0..99 /\ s[2] \in 0..99 /\ s[3] \in 0..99 /\ s[4] \in 0..999

(***************************************************************************)
(* shift_srt_time.shift_and_clean_line                                     *)
(***************************************************************************)

\* Variant of Truncate without step 1 (a late start is not clamped).
TruncateEndOnly(original_start, original_end, max_duration) ==
    IF original_end > max_duration
    THEN <<original_start, max_duration>>
    ELSE <<original_start, original_end>>

\* Steps 1 and 2: the values before the shift.
Truncate(original_start, original_end, max_duration) ==
    IF original_start >= max_duration
    THEN <<max_duration, max_duration>>
    ELSE IF original_end > max_duration
    THEN <<original_start, max_duration>>
    ELSE <<original_start, original_end>>

\* Steps 3 and 4: shift, then raise an end that precedes its start.
ShiftRepair(pre, offset_duration) ==
    LET shifted_start == pre[1] + offset_duration
        shifted_end == pre[2] + offset_duration
    IN  <<shifted_start,
          IF shifted_end < shifted_start THEN shifted_start ELSE shifted_end>>

shift_and_clean_line(start_str, end_str, offset_duration, max_duration) ==
    LET pre == Truncate(to_timedelta(start_str), to_timedelta(end_str), max_duration)
        sh == ShiftRepair(pre, offset_duration)
    IN  <<to_str(sh[1]), to_str(sh[2])>>

(***************************************************************************)
(* split_audio of transcriptor_python.py                                   *)
(***************************************************************************)

RECURSIVE RangeFrom(_, _, _)
\* range(start, total_ms, chunk_length_ms)
RangeFrom(start, total, step) ==
    IF start >= total THEN <<>> ELSE <<start>> \o RangeFrom(start + step, total, step)

\* Variant of Slice that does not stop at the end of the audio.
SliceNoClamp(i, total_ms, chunk_length_ms) == chunk_length_ms

\* len(audio[i:i+chunk_length_ms]): a slice ends at the end of the audio
Slice(i, total_ms, chunk_length_ms) == Min(i + chunk_length_ms, total_ms) - i

\* The chunks list: part number, start in the asset, duration of the part.
split_audio_py(total_ms, chunk_length_ms) ==
    LET starts == RangeFrom(0, total_ms, chunk_length_ms)
    IN  [k \in 1..Len(starts) |->
            [part |-> starts[k] \div chunk_length_ms + 1,
             start |-> starts[k],
             dur |-> Slice(starts[k], total_ms, chunk_length_ms)]]

(***************************************************************************)
(* Specifications of the pure functions: Init draws the arguments, the     *)
(* action applies the function.                                            *)
(***************************************************************************)

Idle ==
    /\ driver = "none" /\ pc = "probe" /\ asset_ms = 0 /\ chunk_files = <<>>
    /\ idx = 0 /\ final_txt = <<>> /\ final_srt = <<>> /\ srt_block_counter = 1
    /\ exit_code = -1 /\ results = <<>>
    /\ output_dir = {} /\ cmd = <<>> /\ run = 1

IdleUnchanged ==
    UNCHANGED <<driver, pc, asset_ms, chunk_files, idx, final_txt, final_srt,
                srt_block_counter, exit_code, results, output_dir, cmd, run>>

\* ---- time codec ----
CodecValues ==
    (0..MaxCodecMs) \cup {59999, 60000, 3599999, 3600000, PyChunkLengthMs,
                          CppChunkLengthMs, LastChunkCapMs, CodecRangeMaxMs}

CodecTexts ==
    {<<h, m, s, ms>> : h \in {0, 99}, m \in {0, 59, 60, 99}, s \in {0, 59, 99},
                       ms \in {0, 1, 999}}

InitCodec ==
    /\ Idle
    /\ probe \in [fn : {"to_str", "format_srt_time"}, arg : CodecValues, out : {None}]
                 \cup [fn : {"to_timedelta"}, arg : CodecTexts, out : {None}]

\* parse(format(s)) with either formatter
FormatThenParse ==
    /\ probe.fn \in {"to_str", "format_srt_time"} /\ probe.out = None
    /\ LET text == IF probe.fn = "to_str" THEN to_str(probe.arg)
                                          ELSE format_srt_time(probe.arg)
       IN  probe' = [probe EXCEPT !.out = [text |-> text, back |-> to_timedelta(text)]]
    /\ IdleUnchanged

\* format(parse(text))
ParseThenFormat ==
    /\ probe.fn = "to_timedelta" /\ probe.out = None
    /\ LET td == to_timedelta(probe.arg)
       IN  probe' = [probe EXCEPT !.out = [text |-> to_str(td), back |-> td]]
    /\ IdleUnchanged

NextCodec == FormatThenParse \/ ParseThenFormat

SpecCodec == InitCodec /\ [][NextCodec]_vars

\* ---- shift_and_clean_line ----
ShiftTimes ==
    {0, 1001, 58000, 60000, 65000, 72000, CppChunkLengthMs, CppChunkLengthMs + 5000}

ShiftCaps == {60000, CppChunkLengthMs}

ShiftOffsets == {0, 60000, CppChunkLengthMs}

InitShift ==
    /\ Idle
    /\ probe \in [fn : {"shift_and_clean_line"}, start : ShiftTimes, end : ShiftTimes,
                  cap : ShiftCaps, offset : ShiftOffsets, out : {None}]

ShiftApply ==
    /\ probe.fn = "shift_and_clean_line" /\ probe.out = None
    /\ LET pre == Truncate(to_timedelta(Fields(probe.start)),
                           to_timedelta(Fields(probe.end)), probe.cap)
       IN  probe' = [probe EXCEPT !.out =
                [pre |-> pre,
                 shifted |-> ShiftRepair(pre, probe.offset),
                 text |-> shift_and_clean_line(Fields(probe.start), Fields(probe.end),
                                               probe.offset, probe.cap)]]
    /\ IdleUnchanged

NextShift == ShiftApply

SpecShift == InitShift /\ [][NextShift]_vars

\* ---- split_audio (transcriptor_python.py) ----
InitSplit ==
    /\ Idle
    /\ probe \in [fn : {"split_audio"}, total_ms : 0..MaxAssetMs,
                  chunk_length_ms : 1..MaxChunkMs, out : {None}]

\* split_audio returns its chunks (the audio loads, is not empty, every export succeeds)
SplitReturns ==
    /\ probe.fn = "split_audio" /\ probe.out = None
    /\ probe.total_ms # 0
    /\ probe' = [probe EXCEPT !.out =
                    [exit |-> FALSE,
                     chunks |-> split_audio_py(probe.total_ms, probe.chunk_length_ms)]]
    /\ IdleUnchanged

\* log_error(..., exit_app=True): the audio does not load, is empty, or an export fails
SplitExits ==
    /\ probe.fn = "split_audio" /\ probe.out = None
    /\ probe' = [probe EXCEPT !.out = [exit |-> TRUE, chunks |-> <<>>]]
    /\ IdleUnchanged

NextSplit == SplitReturns \/ SplitExits

SpecSplit == InitSplit /\ [][NextSplit]_vars

(***************************************************************************)
(* Subtitle text.  A line of a subtitle file is a record: kind is what the *)
(* regular expressions of the code see ("digits": a line of digits only,   *)
(* "ts": a line matching the timestamp pattern, "badts", "text", "blank"); *)
(* role, seg and src say what the line is (block index, time line or       *)
(* caption; the segment it came from; its segment-local start and end) and *)
(* are read by the properties only.                                        *)
(***************************************************************************)
NoStamp == <<0, 0, 0, 0>>

Line(role, kind, val, t0, t1, seg, src) ==
    [role |-> role, kind |-> kind, val |-> val, t0 |-> t0, t1 |-> t1,
     seg |-> seg, src |-> src]

BlankLine == Line("blank", "blank", 0, NoStamp, NoStamp, 0, <<0, 0>>)

RECURSIVE Flatten(_)
Flatten(ss) == IF ss = <<>> THEN <<>> ELSE Head(ss) \o Flatten(Tail(ss))

\* The .srt the engine writes for one segment: per block its number within the
\* segment, its time line, its caption and a blank line.
EngineSrt(blocks, seg) ==
    Flatten([k \in 1..Len(blocks) |->
        LET b == blocks[k] IN
        << Line("index", "digits", k, NoStamp, NoStamp, seg, <<b.start, b.end>>),
           IF b.tsok
           THEN Line("time", "ts", 0, Fields(b.start), Fields(b.end), seg,
                     <<b.start, b.end>>)
           ELSE Line("time", "badts", 0, NoStamp, NoStamp, seg, <<b.start, b.end>>),
           Line("caption", b.cap, 0, NoStamp, NoStamp, seg, <<b.start, b.end>>),
           BlankLine >>])

\* re.sub(pattern, shift_and_clean_line, content): every line matching the
\* pattern is rewritten, every other line is kept.
shift_srt_time(content, offset_duration, max_duration) ==
    [k \in 1..Len(content) |->
        IF content[k].kind = "ts"
        THEN LET out == shift_and_clean_line(content[k].t0, content[k].t1,
                                             offset_duration, max_duration)
             IN  [content[k] EXCEPT !.t0 = out[1], !.t1 = out[2]]
        ELSE content[k]]

RECURSIVE DropLeadingBlank(_)
DropLeadingBlank(content) ==
    IF content # <<>> /\ Head(content).kind = "blank"
    THEN DropLeadingBlank(Tail(content)) ELSE content

RECURSIVE DropTrailingBlank(_)
DropTrailingBlank(content) ==
    IF content # <<>> /\ content[Len(content)].kind = "blank"
    THEN DropTrailingBlank(SubSeq(content, 1, Len(content) - 1)) ELSE content

\* str.strip() on the text of a file
Strip(content) == DropTrailingBlank(DropLeadingBlank(content))

RECURSIVE reindex_srt(_, _)
\* re.sub(r"^\d+\s*$", reindex_srt, srt_content, flags=re.MULTILINE): every line
\* of digits takes the next counter value; \s* also consumes the blank lines
\* that follow such a line.  Yields the new content and the counter.
reindex_srt(content, counter) ==
    IF content = <<>> THEN [content |-> <<>>, counter |-> counter]
    ELSE IF Head(content).kind = "digits"
    THEN LET rest == reindex_srt(DropLeadingBlank(Tail(content)), counter + 1)
         IN  [content |-> <<[Head(content) EXCEPT !.val = counter]>> \o rest.content,
              counter |-> rest.counter]
    ELSE LET rest == reindex_srt(Tail(content), counter)
         IN  [content |-> <<Head(content)>> \o rest.content, counter |-> rest.counter]

\* out.write(text + "\n\n"): the text, ended, and one empty line
WithBlankLine(content) ==
    IF content = <<>> THEN <<BlankLine, BlankLine>> ELSE content \o <<BlankLine>>

(***************************************************************************)
(* What the engines may hand back for one segment.                         *)
(***************************************************************************)
Block(start, end, tsok, cap) == [start |-> start, end |-> end, tsok |-> tsok, cap |-> cap]

\* Blocks of a whisper-cli .srt: inside the chunk, overrunning its end, starting
\* after its end, inverted, with an unparsable time line, beyond the cap of the
\* last chunk, with a caption of digits only.
CppNormal == Block(1001, 2000, TRUE, "text")
CppDigits == Block(3000, 4000, TRUE, "digits")
CppBlocks ==
    { CppNormal, CppDigits,
      Block(CppChunkLengthMs - 2000, CppChunkLengthMs + 5000, TRUE, "text"),
      Block(CppChunkLengthMs + 12000, CppChunkLengthMs + 15000, TRUE, "text"),
      Block(5000, 3000, TRUE, "text"),
      Block(6000, 7000, FALSE, "text"),
      Block(LastChunkCapMs + 1000, LastChunkCapMs + 2000, TRUE, "text") }

CppSrtContents ==
    {<<>>} \cup {<<b>> : b \in CppBlocks}
           \cup {<<CppNormal, Block(8000, 9000, TRUE, "text")>>, <<CppDigits, CppNormal>>}

\* The artifacts found after a whisper-cli run that exited with status 0
CppArtifacts ==
    [txt : {"missing", "blank", "text"},
     srt : {"missing", "unreadable", "ok"},
     blocks : CppSrtContents]

\* The TXT part and the SRT part of an iteration do not read each other's
\* files: every subtitle content is paired with a transcript that has text, and
\* a missing or blank transcript with the short contents.
CppOutputs ==
    {a \in CppArtifacts :
        /\ a.srt # "ok" => a.blocks = <<>>
        /\ a.txt # "text" => a.blocks \in {<<>>, <<CppNormal>>}}

\* Entries of result['chunks'] of the transformers pipeline: ts is "pair" for a
\* (start, end) timestamp, "open" for (start, None), "none" for no timestamp.
PyChunk(ts, start, end, text) == [ts |-> ts, start |-> start, end |-> end, text |-> text]

PyNormal == PyChunk("pair", 1001, 2000, "text")
PyChunks ==
    { PyNormal,
      PyChunk("pair", PyChunkLengthMs - 2000, PyChunkLengthMs + 5000, "text"),
      PyChunk("pair", 5000, 3000, "text"),
      PyChunk("open", 5000, 0, "text"),
      PyChunk("none", 0, 0, "text"),
      PyChunk("pair", 6000, 7000, "blank") }

PyChunkLists ==
    {<<>>} \cup {<<c>> : c \in PyChunks}
           \cup {<<PyNormal, PyChunk("pair", 8000, 9000, "text")>>,
                 <<PyNormal, PyChunk("open", 5000, 0, "text")>>}

PyOutputs == [text : {"blank", "text"}, chunks : PyChunkLists]

(***************************************************************************)
(* transcribe_with_whisper_cpp: one iteration of the loop                  *)
(***************************************************************************)

\* Variant of EngineErrorExits in which a non-zero exit status is fatal too.
AnyEngineErrorExits(kind) == TRUE

\* except CalledProcessError: ... continue; except Exception: exit_app=True
EngineErrorExits(kind) == kind = "launch"

\* Variant of Offset that counts the segment itself.
OffsetOffByOne(i, chunk_ms) == i * chunk_ms

\* offset_seconds = (i - 1) * chunk_seconds; time_offset_seconds likewise
Offset(i, chunk_ms) == (i - 1) * chunk_ms

\* max_seconds_cap = 99999.0 if is_last_chunk else chunk_seconds
Cap(i, n, chunk_ms) == IF i = n THEN LastChunkCapMs ELSE chunk_ms

\* The TXT part: the writes appended to the final transcript
CppTxt(i, a) ==
    IF a.txt = "missing" THEN <<>>
    ELSE <<[seg |-> i, text |-> IF a.txt = "text" THEN "text" ELSE ""]>>

\* The SRT part: the lines appended to the final track and the counter after
CppSrt(i, n, a, counter) ==
    IF a.srt # "ok" THEN [lines |-> <<>>, counter |-> counter]
    ELSE LET shifted == shift_srt_time(EngineSrt(a.blocks, i),
                                       Offset(i, CppChunkLengthMs),
                                       Cap(i, n, CppChunkLengthMs))
             re == reindex_srt(Strip(shifted), counter)
         IN  [lines |-> WithBlankLine(re.content), counter |-> re.counter]

(***************************************************************************)
(* transcribe_with_transformers: one iteration of the loop                 *)
(***************************************************************************)

RECURSIVE PyBuild(_, _, _, _)
\* The for loop over result['chunks']: srt_content, the counter, and whether
\* end_time += time_offset_seconds raised on a None.
PyBuild(chunks, i, offset, counter) ==
    IF chunks = <<>> THEN [lines |-> <<>>, counter |-> counter, raised |-> FALSE]
    ELSE LET c == Head(chunks) IN
         IF c.ts = "none" \/ c.text = "blank"
         THEN PyBuild(Tail(chunks), i, offset, counter)
         ELSE IF c.ts = "open"
         THEN [lines |-> <<>>, counter |-> counter, raised |-> TRUE]
         ELSE LET rest == PyBuild(Tail(chunks), i, offset, counter + 1)
              IN  [lines |->
                     << Line("index", "digits", counter, NoStamp, NoStamp, i,
                             <<c.start, c.end>>),
                        Line("time", "ts", 0, format_srt_time(c.start + offset),
                             format_srt_time(c.end + offset), i, <<c.start, c.end>>),
                        Line("caption", "text", 0, NoStamp, NoStamp, i,
                             <<c.start, c.end>>),
                        BlankLine >> \o rest.lines,
                   counter |-> rest.counter,
                   raised |-> rest.raised]

\* The writes appended to the final transcript
PyTxt(i, r) == IF r.text = "text" THEN <<[seg |-> i, text |-> "text"]>> ELSE <<>>

\* The lines appended to the final track, the counter after, and whether the
\* iteration ended in the except branch
PySrt(i, r, counter) ==
    LET b == PyBuild(r.chunks, i, Offset(i, PyChunkLengthMs), counter)
    IN  [lines |-> IF b.raised THEN <<>> ELSE b.lines,
         counter |-> b.counter,
         raised |-> b.raised]

(***************************************************************************)
(* main: split, then the per-segment loop of the driver                    *)
(***************************************************************************)

ChunkLengthMs(d) == IF d = "cpp" THEN CppChunkLengthMs ELSE PyChunkLengthMs

\* Asset durations: empty, or k chunks of which the last is half a chunk long
AssetDurations(d) ==
    {0} \cup {k * ChunkLengthMs(d) - (ChunkLengthMs(d) \div 2) : k \in 1..MaxSegs}

\* The part_%d.mp3 files ffmpeg's segment muxer writes for -segment_time and
\* -segment_start_number 1, as the sorted glob lists them.
ffmpeg_segment(total_ms, segment_time) == split_audio_py(total_ms, segment_time)

\* A file part_<part>.<ext> of the segment directory, written in run by_run; an
\* audio file holds dur milliseconds of its asset from start.
File(ext, part, by_run, start, dur) ==
    [ext |-> ext, part |-> part, run |-> by_run, start |-> start, dur |-> dur]

\* The audio files a split writes in run r
ChunkFilesOf(chunks, r) ==
    {File("mp3", chunks[k].part, r, chunks[k].start, chunks[k].dur) :
        k \in 1..Len(chunks)}

\* os.makedirs(output_dir, exist_ok=True), then ffmpeg writes part_1.mp3 ..
\* part_n.mp3: a file of the same name is replaced, every other file stays.
ffmpeg_writes(dir, chunks, r) ==
    {f \in dir : ~(f.ext = "mp3" /\ f.part \in 1..Len(chunks))}
        \cup ChunkFilesOf(chunks, r)

RECURSIVE chunk_files_sorted(_)
\* sorted(glob.glob(output_dir / "part_*.mp3"), key=int of the stem's number)
chunk_files_sorted(dir) ==
    LET mp3 == {f \in dir : f.ext = "mp3"} IN
    IF mp3 = {} THEN <<>>
    ELSE LET f == CHOOSE g \in mp3 : \A h \in mp3 : g.part <= h.part
         IN  <<[part |-> f.part, start |-> f.start, dur |-> f.dur]>>
                \o chunk_files_sorted(dir \ {f})

\* Path(chunk) for chunks/part_<part>.mp3, Path.with_suffix and str(Path)
Path(part) == [stem |-> "chunks/part_" \o ToString(part), suffix |-> ".mp3"]
with_suffix(p, suffix) == [p EXCEPT !.suffix = suffix]
str(p) == p.stem \o p.suffix

\* cmd of transcribe_with_whisper_cpp.  Python joins the adjacent literals
\* "--temperature 0.4" "-of" into one list element.
whisper_cmd(chunk) ==
    << "whisper-cli", "-m", "model", "-f", str(chunk),
       "--temperature 0.4" \o "-of", str(with_suffix(chunk, "")),
       "-otxt", "-osrt", "-l", "id", "-pp" >>

\* The .txt and .srt files of segment i in the directory
ArtifactsOf(dir, i) == {f \in dir : f.part = i /\ f.ext \in {"txt", "srt"}}

\* What srt_file.exists() finds: the file whisper-cli wrote, else a file an
\* earlier run left behind (left because shift_srt_time failed on it).
SrtFound(a, dir, i) ==
    IF a.srt = "missing" /\ (\E f \in dir : f.part = i /\ f.ext = "srt")
    THEN [a EXCEPT !.srt = "unreadable"] ELSE a

\* The directory after whisper-cli exited with status 0 on segment i and the
\* TXT and SRT parts ran: the .txt is unlinked once read, the .srt once merged.
CppFilesAfter(dir, i, a, r) ==
    LET written == {File("txt", i, r, 0, 0) : x \in {a.txt} \ {"missing"}}
                     \cup {File("srt", i, r, 0, 0) : x \in {a.srt} \ {"missing"}}
        on_disk == {f \in dir : \A w \in written : ~(f.part = i /\ f.ext = w.ext)}
                     \cup written
    IN  {f \in on_disk :
            ~(f.part = i /\ (f.ext = "txt"
                             \/ (f.ext = "srt" /\ SrtFound(a, dir, i).srt = "ok")))}

\* finally of the transformers loop: chunk_path.unlink()
PyFilesAfter(dir, i) == {f \in dir : ~(f.part = i /\ f.ext = "mp3")}

\* finally of the transformers main: shutil.rmtree(chunk_dir); the whisper.cpp
\* main removes nothing.
MainFinally(d, dir) == IF d = "py" THEN {} ELSE dir

Init ==
    /\ driver \in {"cpp", "py"}
    /\ pc = "split"
    /\ asset_ms \in AssetDurations(driver)
    /\ chunk_files = <<>>
    /\ idx = 0
    /\ final_txt = <<>>
    /\ final_srt = <<>>
    /\ srt_block_counter = 1
    /\ exit_code = -1
    /\ results = <<>>
    /\ probe = None
    /\ output_dir = {}
    /\ cmd = <<>>
    /\ run = 1

Exit(code) ==
    /\ pc' = "exit"
    /\ exit_code' = code

\* main after split_audio returned, without the check of an empty list
StartDriverUnchecked(chunks) ==
    /\ chunk_files' = chunks
    /\ pc' = "loop" /\ exit_code' = exit_code
    /\ final_txt' = <<>>
    /\ final_srt' = <<>>
    /\ srt_block_counter' = 1
    /\ UNCHANGED <<driver, asset_ms, idx, results, probe, cmd, run>>

\* main after split_audio returned: no chunk is fatal, else the driver starts
\* with two empty final documents and the counter at 1.
StartDriver(chunks) ==
    /\ chunk_files' = chunks
    /\ IF chunks = <<>> THEN Exit(1) ELSE pc' = "loop" /\ exit_code' = exit_code
    /\ final_txt' = <<>>
    /\ final_srt' = <<>>
    /\ srt_block_counter' = 1
    /\ UNCHANGED <<driver, asset_ms, idx, results, probe, cmd, run>>

\* A setup step fails: a dependency or the model is missing, the download or
\* ffmpeg fails, the audio does not load or is empty, an export fails, the
\* final documents cannot be created.
SetupFails ==
    /\ pc = "split"
    /\ Exit(1)
    /\ output_dir' = MainFinally(driver, output_dir)
    /\ UNCHANGED <<driver, asset_ms, chunk_files, idx, final_txt, final_srt,
                   srt_block_counter, results, probe, cmd, run>>

MainSplitCpp ==
    /\ pc = "split" /\ driver = "cpp"
    /\ LET dir == ffmpeg_writes(output_dir,
                                ffmpeg_segment(asset_ms, CppChunkLengthMs), run)
       IN  /\ output_dir' = dir
           /\ StartDriver(chunk_files_sorted(dir))

MainSplitPy ==
    /\ pc = "split" /\ driver = "py"
    /\ asset_ms # 0
    /\ LET chunks == split_audio_py(asset_ms, PyChunkLengthMs)
       IN  /\ output_dir' = ChunkFilesOf(chunks, run)
           /\ StartDriver(chunks)

Result(i, engine, txt, srt, blocks, txt_writes, srt_len, offset, before, after) ==
    [seg |-> i, engine |-> engine, txt |-> txt, srt |-> srt, blocks |-> blocks,
     txt_writes |-> txt_writes, srt_len |-> srt_len, offset |-> offset,
     counter_before |-> before, counter_after |-> after]

\* whisper-cli could not be run or exited with a non-zero status
CppEngineError ==
    /\ pc = "loop" /\ driver = "cpp" /\ idx < Len(chunk_files)
    /\ \E kind \in {"nonzero", "launch"} :
        /\ results' = Append(results,
              Result(idx + 1, kind, "none", "none", <<>>, 0, 0, -1,
                     srt_block_counter, srt_block_counter))
        /\ IF EngineErrorExits(kind) THEN Exit(1)
                                     ELSE UNCHANGED <<pc, exit_code>>
        /\ output_dir' = IF kind = "nonzero"
                         THEN output_dir \ ArtifactsOf(output_dir, idx + 1)
                         ELSE output_dir
    /\ cmd' = whisper_cmd(Path(chunk_files[idx + 1].part))
    /\ idx' = idx + 1
    /\ UNCHANGED <<driver, asset_ms, chunk_files, final_txt, final_srt,
                   srt_block_counter, probe, run>>

\* whisper-cli exited with status 0: the TXT part, then the SRT part
CppSegment ==
    /\ pc = "loop" /\ driver = "cpp" /\ idx < Len(chunk_files)
    /\ \E w \in CppOutputs :
        LET i == idx + 1
            a == SrtFound(w, output_dir, i)
            t == CppTxt(i, a)
            m == CppSrt(i, Len(chunk_files), a, srt_block_counter)
        IN  /\ final_txt' = final_txt \o t
            /\ final_srt' = final_srt \o m.lines
            /\ srt_block_counter' = m.counter
            /\ results' = Append(results,
                  Result(i, "ok", a.txt, a.srt, a.blocks, Len(t), Len(m.lines),
                         IF a.srt = "missing" THEN -1 ELSE Offset(i, CppChunkLengthMs),
                         srt_block_counter, m.counter))
            /\ output_dir' = CppFilesAfter(output_dir, i, w, run)
    /\ cmd' = whisper_cmd(Path(chunk_files[idx + 1].part))
    /\ idx' = idx + 1
    /\ UNCHANGED <<driver, pc, asset_ms, chunk_files, exit_code, probe, run>>

\* transcriber(...) raised: the except branch, then finally
PyEngineError ==
    /\ pc = "loop" /\ driver = "py" /\ idx < Len(chunk_files)
    /\ results' = Append(results,
          Result(idx + 1, "raised", "none", "none", <<>>, 0, 0,
                 Offset(idx + 1, PyChunkLengthMs), srt_block_counter, srt_block_counter))
    /\ output_dir' = PyFilesAfter(output_dir, idx + 1)
    /\ idx' = idx + 1
    /\ UNCHANGED <<driver, pc, asset_ms, chunk_files, final_txt, final_srt,
                   srt_block_counter, exit_code, probe, cmd, run>>

\* transcriber(...) returned: the TXT part, then the SRT part, then finally
PySegment ==
    /\ pc = "loop" /\ driver = "py" /\ idx < Len(chunk_files)
    /\ \E r \in PyOutputs :
        LET i == idx + 1
            t == PyTxt(i, r)
            m == PySrt(i, r, srt_block_counter)
        IN  /\ final_txt' = final_txt \o t
            /\ final_srt' = final_srt \o m.lines
            /\ srt_block_counter' = m.counter
            /\ results' = Append(results,
                  Result(i, "ok", r.text, IF m.raised THEN "raised" ELSE "ok",
                         r.chunks, Len(t), Len(m.lines),
                         Offset(i, PyChunkLengthMs), srt_block_counter, m.counter))
    /\ output_dir' = PyFilesAfter(output_dir, idx + 1)
    /\ idx' = idx + 1
    /\ UNCHANGED <<driver, pc, asset_ms, chunk_files, exit_code, probe, cmd, run>>

\* The loop is over: main logs the end and the process ends with status 0
Finish ==
    /\ pc = "loop" /\ idx = Len(chunk_files)
    /\ pc' = "done"
    /\ exit_code' = 0
    /\ output_dir' = MainFinally(driver, output_dir)
    /\ UNCHANGED <<driver, asset_ms, chunk_files, idx, final_txt, final_srt,
                   srt_block_counter, results, probe, cmd, run>>

Next ==
    \/ SetupFails
    \/ MainSplitCpp
    \/ MainSplitPy
    \/ CppEngineError
    \/ CppSegment
    \/ PyEngineError
    \/ PySegment
    \/ Finish

Spec == Init /\ [][Next]_vars

\* The program is started again in the same working directory on another
\* asset: a new process, the files of the segment directory as the earlier
\* run left them.  No run reads the final documents of an earlier one.
Rerun ==
    /\ pc \in {"done", "exit"} /\ run < MaxRuns
    /\ run' = run + 1
    /\ pc' = "split"
    /\ asset_ms' \in AssetDurations(driver)
    /\ chunk_files' = <<>>
    /\ idx' = 0
    /\ final_txt' = <<>>
    /\ final_srt' = <<>>
    /\ srt_block_counter' = 1
    /\ exit_code' = -1
    /\ results' = <<>>
    /\ cmd' = <<>>
    /\ UNCHANGED <<driver, probe, output_dir>>

NextRerun ==
    \/ Next
    \/ Rerun

SpecRerun == Init /\ [][NextRerun]_vars

(***************************************************************************)
(* Properties                                                              *)
(***************************************************************************)
IsTsLine(l) == l.role = "time" /\ l.kind = "ts"
IsIndexLine(l) == l.role = "index"

TsLines(track) == SelectSeq(track, IsTsLine)
IndexLines(track) == SelectSeq(track, IsIndexLine)

RECURSIVE SumDur(_, _)
\* Sum of the nominal durations of the first k segments
SumDur(chunks, k) == IF k = 0 THEN 0 ELSE chunks[k].dur + SumDur(chunks, k - 1)

CeilDiv(a, b) == (a + b - 1) \div b

Max(a, b) == IF a > b THEN a ELSE b

EngineFailed(r) == r.engine \in {"nonzero", "raised"}

\* C1: per-segment failure isolation.  A segment whose engine invocation fails
\* (whisper-cli exits non-zero, the transformers pipeline raises) contributes
\* nothing and does not end the job: the process exits inside the loop only when
\* the engine could not be launched at all; segments are handed to the engine in
\* index order without a skip, all n of them once the job is done; the final
\* transcript holds at most one paragraph per segment, in segment order, only of
\* segments whose invocation succeeded, one for each of those that has text; and
\* the finished job has exit status 0.
C1_FailureIsolation ==
    /\ Len(results) = idx
    /\ \A k \in 1..Len(results) : results[k].seg = k
    /\ (pc = "exit" /\ idx > 0) => results[idx].engine = "launch"
    /\ pc = "done" => (exit_code = 0 /\ idx = Len(chunk_files))
    /\ \A k \in 1..Len(final_txt) :
          /\ final_txt[k].seg \in 1..Len(results)
          /\ results[final_txt[k].seg].engine = "ok"
          /\ k > 1 => final_txt[k - 1].seg < final_txt[k].seg
    /\ \A k \in 1..Len(results) :
          /\ EngineFailed(results[k]) => \A j \in 1..Len(final_txt) : final_txt[j].seg # k
          /\ (results[k].engine = "ok" /\ results[k].txt = "text")
                => \E j \in 1..Len(final_txt) :
                      final_txt[j].seg = k /\ final_txt[j].text = "text"

\* Segment 2 of 3 failed, the job is done, the transcript holds paragraphs 1 and 3.
C1_Witness ==
    /\ pc = "done" /\ Len(chunk_files) = 3
    /\ results[2].engine = "nonzero"
    /\ Len(final_txt) = 2
    /\ final_txt[1] = [seg |-> 1, text |-> "text"]
    /\ final_txt[2] = [seg |-> 3, text |-> "text"]

\* C2: re-indexing continuity.  The block indices of the final subtitle track
\* are 1, 2, ..., k in file order, and a segment that contributed no block to
\* the track consumed no value of the counter.
C2_ReindexContinuity ==
    /\ LET ix == IndexLines(final_srt)
       IN  \A k \in 1..Len(ix) : ix[k].val = k
    /\ \A k \in 1..Len(results) :
          (\A j \in 1..Len(final_srt) :
                ~(IsIndexLine(final_srt[j]) /\ final_srt[j].seg = k))
             => results[k].counter_after = results[k].counter_before

RecordedFailed(r) ==
    \/ r.engine # "ok"
    \/ r.txt = "missing"
    \/ r.srt \in {"missing", "unreadable", "raised"}

\* C3: a segment recorded as failed (engine failure, missing output artifact,
\* subtitle content that cannot be processed) contributes nothing to either
\* final document.
C3_FailedContributesNothing ==
    \A k \in 1..Len(results) :
        RecordedFailed(results[k])
            => (results[k].txt_writes = 0 /\ results[k].srt_len = 0)

\* C4: offset monotonicity.  The offset applied to the subtitles of segment i is
\* the sum of the nominal durations of segments 1..i-1, whatever happened to the
\* earlier segments, and the offsets do not decrease with i.
C4_OffsetMonotonicity ==
    \A k \in 1..Len(results) :
        results[k].offset # -1 =>
            /\ results[k].offset = SumDur(chunk_files, k - 1)
            /\ \A j \in 1..(k - 1) :
                  results[j].offset # -1 => results[j].offset <= results[k].offset

\* Segment 3 has its subtitles shifted by two chunk lengths after segment 1
\* failed and segment 2 had no subtitle file.
C4_Witness ==
    /\ Len(results) = 3
    /\ results[1].engine \in {"nonzero", "raised"}
    /\ results[2].offset = -1
    /\ results[3].srt_len > 0
    /\ results[3].offset = 2 * ChunkLengthMs(driver)

\* C5: truncation policy of shift_srt_time.  With cap C the values before the
\* shift are (C, C) when start >= C, (start, C) when start < C and end > C, and
\* (start, end) otherwise; the offset is added after the truncation, and the
\* rewritten line is the text of the truncated values plus the offset.
C5_TruncationPolicy ==
    (probe.fn = "shift_and_clean_line" /\ probe.out # None) =>
        LET s == probe.start
            e == probe.end
            C == probe.cap
            expected == IF s >= C THEN <<C, C>>
                        ELSE IF e > C THEN <<s, C>>
                        ELSE <<s, e>>
        IN  /\ probe.out.pre = expected
            /\ probe.out.shifted[1] = expected[1] + probe.offset
            /\ probe.out.shifted[2] = Max(expected[1], expected[2]) + probe.offset
            /\ probe.out.text = << to_str(expected[1] + probe.offset),
                                   to_str(Max(expected[1], expected[2]) + probe.offset) >>

\* start=58s, end=65s, cap 60s is truncated to 58s, 60s before the shift.
C5_Witness ==
    /\ probe.fn = "shift_and_clean_line" /\ probe.out # None
    /\ probe.start = 58000 /\ probe.end = 65000 /\ probe.cap = 60000
    /\ probe.offset = 60000
    /\ probe.out.pre = <<58000, 60000>>
    /\ probe.out.text = <<Fields(118000), Fields(120000)>>

\* C6: the final subtitle track does not go back in time across segment
\* boundaries: a block of segment i ends no later than the offset of every later
\* segment j that contributed blocks, and a block of segment j starts no earlier
\* than the offset of segment j.
C6_MonotoneAcrossSegments ==
    LET ts == TsLines(final_srt)
        C == ChunkLengthMs(driver)
    IN  \A a \in 1..Len(ts) :
           /\ to_timedelta(ts[a].t0) >= Offset(ts[a].seg, C)
           /\ \A b \in 1..Len(ts) :
                 ts[a].seg < ts[b].seg => to_timedelta(ts[a].t1) <= Offset(ts[b].seg, C)

\* C7: every block written to the final subtitle track ends no earlier than it
\* starts.
C7_EndNotBeforeStart ==
    LET ts == TsLines(final_srt)
    IN  \A a \in 1..Len(ts) : to_timedelta(ts[a].t1) >= to_timedelta(ts[a].t0)

\* C8: no truncation of the final segment.  A block of the last segment of the
\* list whose end is not before its start appears in the final subtitle track
\* with its segment-local start and end plus the segment's offset.
C8_NoTruncationFinal ==
    LET ts == TsLines(final_srt)
        C == ChunkLengthMs(driver)
    IN  \A a \in 1..Len(ts) :
           (ts[a].seg = Len(chunk_files) /\ ts[a].src[1] <= ts[a].src[2]
              /\ ts[a].src[2] + Offset(ts[a].seg, C) <= CodecRangeMaxMs) =>
                /\ to_timedelta(ts[a].t0) = ts[a].src[1] + Offset(ts[a].seg, C)
                /\ to_timedelta(ts[a].t1) = ts[a].src[2] + Offset(ts[a].seg, C)

\* C9: segment coverage.  When split_audio returns, the asset is not empty, it
\* returns n = ceil(D/C) segments numbered 1..n in order, segment k covers
\* [C*(k-1), min(C*k, D)), every segment but the last lasts C and the last lasts
\* D - C*(n-1), which is in (0, C].
C9_SegmentCoverage ==
    (probe.fn = "split_audio" /\ probe.out # None /\ ~probe.out.exit) =>
        LET D == probe.total_ms
            C == probe.chunk_length_ms
            ch == probe.out.chunks
            n == Len(ch)
        IN  /\ D > 0
            /\ n = CeilDiv(D, C)
            /\ \A k \in 1..n :
                  /\ ch[k].part = k
                  /\ ch[k].start = C * (k - 1)
                  /\ ch[k].start + ch[k].dur = Min(C * k, D)
                  /\ k < n => ch[k].dur = C
            /\ ch[n].dur = D - C * (n - 1)
            /\ ch[n].dur > 0 /\ ch[n].dur <= C

\* An asset of 12 split by 5 gives three segments, the last of duration 2.
C9_Witness ==
    /\ probe.fn = "split_audio" /\ probe.out # None /\ ~probe.out.exit
    /\ probe.total_ms = 12 /\ probe.chunk_length_ms = 5
    /\ Len(probe.out.chunks) = 3
    /\ probe.out.chunks[3].dur = 2

\* C10: time codec round trip.  Parsing the text a formatter produced for a
\* value of whole milliseconds in [0, 359999.999] s yields the value again, and
\* formatting the parse of a well-formed text yields the same text.
C10_RoundTrip ==
    probe.out # None =>
        /\ (probe.fn \in {"to_str", "format_srt_time"} /\ probe.arg <= CodecRangeMaxMs)
              => probe.out.back = probe.arg
        /\ (probe.fn = "to_timedelta" /\ WellFormed(probe.arg))
              => probe.out.text = probe.arg

\* The writes segment k appended to the final transcript
TxtWritesOf(k) == SelectSeq(final_txt, LAMBDA w : w.seg = k)

\* C11: a segment the engine transcribed with empty or whitespace-only text
\* adds nothing to the final transcript, and a segment with text adds exactly
\* one write, its stripped text followed by a blank line, in both drivers.
C11_TranscriptAssembly ==
    \A k \in 1..Len(results) :
        results[k].engine = "ok" =>
            /\ results[k].txt = "blank" => TxtWritesOf(k) = <<>>
            /\ results[k].txt = "text" =>
                   TxtWritesOf(k) = <<[seg |-> k, text |-> "text"]>>

\* C12: once the per-segment loop has started, no error raised while a segment
\* is processed ends the process: the process ends only after the last segment
\* was attempted, with status 0.
C12_SegmentErrorsNeverExit ==
    (pc \in {"done", "exit"} /\ chunk_files # <<>>) =>
        /\ pc = "done" /\ exit_code = 0
        /\ Len(results) = Len(chunk_files)

\* C13: in both drivers, once the loop has consumed segment i (the next one is
\* started, or the loop is over), the segment's audio file and the .txt/.srt
\* files written for it are gone from the segment directory, whether the
\* segment succeeded or failed.
C13_ScopedCleanup ==
    pc \in {"loop", "done"} => \A f \in output_dir : f.part > idx

\* C14: a run whose split failed or returned no segment ends with a non-zero
\* status and hands no segment to the engine, and the engine is only ever
\* invoked in a run whose split returned at least one segment.
C14_SetupFatalOrdering ==
    /\ (pc # "split" /\ chunk_files = <<>>) =>
           pc = "exit" /\ exit_code # 0 /\ results = <<>> /\ idx = 0
    /\ results # <<>> => chunk_files # <<>>

\* A split that returned nothing ended the run with status 1, nothing engaged
C14_Witness ==
    pc = "exit" /\ exit_code = 1 /\ chunk_files = <<>> /\ results = <<>>
    /\ asset_ms = 0 /\ driver = "cpp"

\* The lines of role r that segment k has in the final subtitle track
LinesOf(k, r) == SelectSeq(final_srt, LAMBDA l : l.seg = k /\ l.role = r)

\* C15: merging a segment's subtitles in the whisper.cpp driver rewrites only
\* well-formed time lines and block-index lines: a caption line (also one of
\* digits only) and a time line that does not match the pattern are in the
\* final track as the engine wrote them (val 0, no stamp), and a segment takes
\* exactly one counter value per block-index line.
C15_OnlyIndexAndTimeLinesRewritten ==
    driver = "cpp" =>
        /\ \A j \in 1..Len(final_srt) :
              /\ final_srt[j].role = "caption" => final_srt[j].val = 0
              /\ (final_srt[j].role = "time" /\ final_srt[j].kind = "badts") =>
                     final_srt[j].t0 = NoStamp /\ final_srt[j].t1 = NoStamp
        /\ \A k \in 1..Len(results) :
              results[k].counter_after - results[k].counter_before
                  = Len(LinesOf(k, "index"))

\* C16: for every segment the whisper.cpp driver passes the engine the option
\* -of as an argument of its own, directly followed by the segment path without
\* its extension, so that the engine is told to write the .txt and .srt paths
\* the driver reads afterwards.
C16_OutputBaseOption ==
    \A k \in 1..Len(results) :
        (driver = "cpp" /\ k = idx) =>
            LET chunk == Path(chunk_files[k].part)
                base == str(with_suffix(chunk, ""))
            IN  /\ \E j \in 1..(Len(cmd) - 1) : cmd[j] = "-of" /\ cmd[j + 1] = base
                /\ base \o ".txt" = str(with_suffix(chunk, ".txt"))
                /\ base \o ".srt" = str(with_suffix(chunk, ".srt"))

\* C17: in every run of the whisper.cpp pipeline, the segment list split_audio
\* returned is exactly the list of the segment files made from this run's
\* asset, in index order, and no segment beyond them is transcribed.
C17_OnlyCurrentRunSegments ==
    (driver = "cpp" /\ pc \in {"loop", "done"}) =>
        /\ chunk_files = ffmpeg_segment(asset_ms, CppChunkLengthMs)
        /\ \A k \in 1..Len(results) :
              \E f \in ChunkFilesOf(ffmpeg_segment(asset_ms, CppChunkLengthMs), run) :
                  f.part = results[k].seg

=============================================================================
